---------------------------- MODULE Spec2Model ----------------------------
(* The entity id allocator of src/src/entities.rs (struct Entities):      *)
(* a slot table `meta`, the list `pending` of recycled ids and the         *)
(* atomic `free_cursor`.  Reservation calls (&self) run concurrently and   *)
(* are split at their atomic fetch_sub; alloc, free, flush, clear and      *)
(* get_mut (&mut self) run only while no reservation call is in progress.  *)
EXTENDS Integers, Sequences, FiniteSets, TLC

(* ------------------------------ bounds -------------------------------- *)
\* number of threads that may run reservation calls concurrently
NumThreads == 2
\* largest number of ids (slots plus reserved new ids) the model hands out
MaxMeta == 3
\* a slot is freed only while its generation is below this cap
MaxGen == 1
\* largest `count` passed to reserve_entities
MaxCount == 2
\* bits of a u32 in the Entity <-> bits conversion (the code's 32)
WordBits == 4

(* ------------------------- program constants -------------------------- *)
\* u32::max_value(), written as its 32-bit pattern read in two's complement
\* (TLC's integers end at 2^31 - 1); every other u32 here is below 2^31
U32Max == -1
\* the index the tests write through get_mut (e.get_mut(entity).index = 37)
TestIndex == 37

Threads == 1..NumThreads

VARIABLES
    meta,         \* Entities::meta : Seq of [generation, location]; slot of id i is meta[i+1]
    pending,      \* Entities::pending : Seq of ids
    free_cursor,  \* Entities::free_cursor : AtomicI64
    pc,           \* position of each thread inside a reservation call
    tl,           \* locals of each thread's reservation call / its iterator
    live,         \* history: per handle, how often it was issued by alloc or a reservation and not freed since
    issued,       \* history: every handle ever returned by alloc or a reservation
    freed,        \* history: handles freed successfully whose id was not handed out again
    reserved,     \* history: handles returned by reservation calls since the last flush
    handed,       \* history: ids handed out by reservation calls since the last flush
    nhanded,      \* history: how many ids were handed out since the last flush
    requested,    \* history: how many handles reservation calls asked for since the last flush
    last          \* history: the most recent operation, its argument and its result

vars == <<meta, pending, free_cursor, pc, tl, live, issued, freed, reserved,
          handed, nhanded, requested, last>>

alloc_vars == <<meta, pending, free_cursor>>

(* ------------------------------ values -------------------------------- *)
Max(a, b) == IF a >= b THEN a ELSE b
Min(a, b) == IF a <= b THEN a ELSE b

Location(a, i) == [archetype |-> a, index |-> i]

\* EntityMeta::EMPTY
EMPTY == [generation |-> 0, location |-> Location(0, U32Max)]

Entity(g, i) == [generation |-> g, id |-> i]

\* the handles callers may present (any generation / id in the modelled range)
Handles == [generation : 0..(MaxGen + 1) \cup {U32Max}, id : 0..(MaxMeta - 1)]

\* Location values written by callers: the tests' write of index 37 into an
\* otherwise empty location, and a placement in archetype 1
Locations == {Location(0, U32Max), Location(0, TestIndex), Location(1, 0)}

NoEntity == Entity(0 - 1, 0 - 1)

IdleLocals == [n |-> 0, count |-> 0, lo |-> 0, hi |-> 0, new_start |-> 0, new_end |-> 0]

Event(op, res, e, n, ids, want) ==
    [op |-> op, res |-> res, e |-> e, n |-> n, ids |-> ids, want |-> want]

AllIdle == \A t \in Threads : pc[t] = "idle"

Range(s) == {s[i] : i \in 1..Len(s)}

(* ----------------------------- queries -------------------------------- *)
\* Entities::needs_flush
needs_flush == free_cursor # Len(pending)

\* contains as it would be with map_or(false, ..): ids beyond meta not contained
contains_in_range_only(m, entity) ==
    IF entity.id < Len(m)
    THEN m[entity.id + 1].generation = entity.generation
    ELSE FALSE

\* Entities::contains : meta.get(id).map_or(true, |m| m.generation == entity.generation)
contains(m, entity) ==
    IF entity.id < Len(m)
    THEN m[entity.id + 1].generation = entity.generation
    ELSE TRUE

(* ---------------------------- Init / Next ------------------------------ *)
\* Entities::default()
Init ==
    /\ meta = <<>>
    /\ pending = <<>>
    /\ free_cursor = 0
    /\ pc = [t \in Threads |-> "idle"]
    /\ tl = [t \in Threads |-> IdleLocals]
    /\ live = [h \in Handles |-> 0]
    /\ issued = {}
    /\ freed = {}
    /\ reserved = {}
    /\ handed = {}
    /\ nhanded = 0
    /\ requested = 0
    /\ last = Event("new", "ok", NoEntity, 0, <<>>, {})


(* ------------------------ concurrent reservation ------------------------ *)
\* Entities::reserve_entity, after `n = free_cursor.fetch_sub(1)`:
\* pending[(n - 1) as usize] is p[n] here (sequences start at 1)
reserve_entity_result(m, p, n) ==
    IF n > 0
    THEN Entity(m[p[n] + 1].generation, p[n])
    ELSE Entity(0, Len(m) - n)

\* reserve_entities with `base - range_end` for new_id_start, the .min(0) left out
reserve_entities_iter_no_min(m, range_end, count) ==
    LET range_start == range_end - count
        base == Len(m)
    IN  [lo |-> Max(range_start, 0),
         hi |-> Max(range_end, 0),
         new_start |-> IF range_start >= 0 THEN 0 ELSE base - range_end,
         new_end |-> IF range_start >= 0 THEN 0 ELSE base - range_start]

\* Entities::reserve_entities, after `range_end = free_cursor.fetch_sub(count)`:
\* the ReserveEntitiesIterator it builds (id_iter = pending[lo..hi], id_range = new_start..new_end)
reserve_entities_iter(m, range_end, count) ==
    LET range_start == range_end - count
        base == Len(m)
    IN  [lo |-> Max(range_start, 0),
         hi |-> Max(range_end, 0),
         new_start |-> IF range_start >= 0 THEN 0 ELSE base - Min(range_end, 0),
         new_end |-> IF range_start >= 0 THEN 0 ELSE base - range_start]

\* ReserveEntitiesIterator::next ; NoEntity stands for None
iter_next(m, p, it) ==
    IF it.lo < it.hi
    THEN Entity(m[p[it.lo + 1] + 1].generation, p[it.lo + 1])
    ELSE IF it.new_start < it.new_end
         THEN Entity(0, it.new_start)
         ELSE NoEntity

\* the iterator after next(): the slice iterator steps first, then the range
iter_advance(it) ==
    IF it.lo < it.hi
    THEN [it EXCEPT !.lo = it.lo + 1]
    ELSE IF it.new_start < it.new_end
         THEN [it EXCEPT !.new_start = it.new_start + 1]
         ELSE it

\* ReserveEntitiesIterator::size_hint
iter_len(it) == (it.hi - it.lo) + (it.new_end - it.new_start)

\* the ids a not yet consumed iterator still holds
iter_rest(p, it) ==
    {p[i + 1] : i \in it.lo..(it.hi - 1)} \cup it.new_start..(it.new_end - 1)

\* history update shared by every step that returns a handle to a caller
Issue(e) ==
    /\ live' = [live EXCEPT ![e] = live[e] + 1]
    /\ issued' = issued \cup {e}
    /\ freed' = {f \in freed : f.id # e.id}

\* the model hands out ids below MaxMeta only
RoomFor(count) == Len(meta) - Min(free_cursor - count, 0) <= MaxMeta

\* reserve_entity with a plain load in place of the fetch_sub: the cursor stays
ReserveEntityFetch_load(t) ==
    /\ pc[t] = "idle"
    /\ RoomFor(1)
    /\ free_cursor' = free_cursor
    /\ tl' = [tl EXCEPT ![t] = [IdleLocals EXCEPT !.n = free_cursor, !.count = 1]]
    /\ pc' = [pc EXCEPT ![t] = "re_fetched"]
    /\ requested' = requested + 1
    /\ last' = Event("fetch_sub", "ok", NoEntity, 0, <<>>, {})
    /\ UNCHANGED <<meta, pending, live, issued, freed, reserved, handed, nhanded>>

\* reserve_entity, line 178: the atomic fetch_sub
ReserveEntityFetch(t) ==
    /\ pc[t] = "idle"
    /\ RoomFor(1)
    /\ free_cursor' = free_cursor - 1
    /\ tl' = [tl EXCEPT ![t] = [IdleLocals EXCEPT !.n = free_cursor, !.count = 1]]
    /\ pc' = [pc EXCEPT ![t] = "re_fetched"]
    /\ requested' = requested + 1
    /\ last' = Event("fetch_sub", "ok", NoEntity, 0, <<>>, {})
    /\ UNCHANGED <<meta, pending, live, issued, freed, reserved, handed, nhanded>>

\* reserve_entity, lines 179-196: the reads of pending and meta, and the return
ReserveEntityReturn(t) ==
    /\ pc[t] = "re_fetched"
    /\ LET e == reserve_entity_result(meta, pending, tl[t].n)
       IN  /\ Issue(e)
           /\ reserved' = reserved \cup {e}
           /\ handed' = handed \cup {e.id}
           /\ nhanded' = nhanded + 1
           /\ last' = Event("reserve_entity", "ok", e, 0, <<>>, {})
    /\ pc' = [pc EXCEPT ![t] = "idle"]
    /\ tl' = [tl EXCEPT ![t] = IdleLocals]
    /\ UNCHANGED <<meta, pending, free_cursor, requested>>

\* reserve_entities, lines 139-171: the atomic fetch_sub, then the iterator built
\* from range_end, count and meta.len() (no exclusive operation runs meanwhile,
\* so meta.len() is the same wherever the call reads it)
ReserveEntities(t, count) ==
    /\ pc[t] = "idle"
    /\ RoomFor(count)
    /\ free_cursor' = free_cursor - count
    /\ LET it == reserve_entities_iter(meta, free_cursor, count)
       IN  tl' = [tl EXCEPT ![t] = [n |-> free_cursor, count |-> count,
                                    lo |-> it.lo, hi |-> it.hi,
                                    new_start |-> it.new_start,
                                    new_end |-> it.new_end]]
    /\ pc' = [pc EXCEPT ![t] = "iter"]
    /\ requested' = requested + count
    /\ last' = Event("fetch_sub", "ok", NoEntity, 0, <<>>, {})
    /\ UNCHANGED <<meta, pending, live, issued, freed, reserved, handed, nhanded>>

\* ReserveEntitiesIterator::next returning Some(entity)
IterNext(t) ==
    /\ pc[t] = "iter"
    /\ iter_len(tl[t]) > 0
    /\ LET e == iter_next(meta, pending, tl[t])
       IN  /\ Issue(e)
           /\ reserved' = reserved \cup {e}
           /\ handed' = handed \cup {e.id}
           /\ nhanded' = nhanded + 1
           /\ last' = Event("next", "ok", e, 0, <<>>, {})
    /\ tl' = [tl EXCEPT ![t] = iter_advance(tl[t])]
    /\ UNCHANGED <<meta, pending, free_cursor, pc, requested>>

\* the iterator is dropped, exhausted or not: the ids it still holds stay reserved
IterDrop(t) ==
    /\ pc[t] = "iter"
    /\ handed' = handed \cup iter_rest(pending, tl[t])
    /\ nhanded' = nhanded + iter_len(tl[t])
    /\ pc' = [pc EXCEPT ![t] = "idle"]
    /\ tl' = [tl EXCEPT ![t] = IdleLocals]
    /\ last' = Event("drop", "ok", NoEntity, 0, <<>>, {})
    /\ UNCHANGED <<meta, pending, free_cursor, live, issued, freed, reserved, requested>>

(* -------------------------- exclusive operations ------------------------ *)
\* Entities::verify_flushed : the precondition of alloc and free
verify_flushed == ~needs_flush

\* alloc reading the first pending id while pop() removes the last
alloc_entity_front(m, p) ==
    IF Len(p) > 0
    THEN Entity(m[p[1] + 1].generation, p[1])
    ELSE Entity(0, Len(m))

\* Entities::alloc : the handle it returns
alloc_entity(m, p) ==
    IF Len(p) > 0
    THEN Entity(m[p[Len(p)] + 1].generation, p[Len(p)])
    ELSE Entity(0, Len(m))

\* Entities::alloc : meta afterwards (meta.push(EntityMeta::EMPTY) when nothing is pending)
alloc_meta(m, p) == IF Len(p) > 0 THEN m ELSE Append(m, EMPTY)

\* Entities::alloc : pending afterwards (pending.pop())
alloc_pending(p) == IF Len(p) > 0 THEN SubSeq(p, 1, Len(p) - 1) ELSE p

\* alloc without the store to free_cursor after the pop
alloc_cursor_no_store(p, c) == c

\* Entities::alloc : free_cursor afterwards (stored only when an id was popped)
alloc_cursor(p, c) == IF Len(p) > 0 THEN Len(p) - 1 ELSE c

Alloc ==
    /\ AllIdle
    /\ verify_flushed
    /\ Len(pending) > 0 \/ Len(meta) < MaxMeta
    /\ LET e == alloc_entity(meta, pending)
       IN  /\ Issue(e)
           /\ last' = Event("alloc", "ok", e, 0, <<>>, {})
    /\ meta' = alloc_meta(meta, pending)
    /\ pending' = alloc_pending(pending)
    /\ free_cursor' = alloc_cursor(pending, free_cursor)
    /\ UNCHANGED <<pc, tl, reserved, handed, nhanded, requested>>

\* u32 `generation += 1`, wrapping: u32::MAX + 1 is 0
gen_succ(g) == IF g = U32Max THEN 0 ELSE g + 1

\* Entities::free : "panic" is the out-of-bounds index self.meta[entity.id],
\* "err" is Err(NoSuchEntity)
free_result(m, entity) ==
    IF entity.id >= Len(m) THEN "panic"
    ELSE IF m[entity.id + 1].generation # entity.generation THEN "err"
    ELSE "ok"

\* free advancing the generation before it compares it
free_meta_early(m, entity) ==
    IF free_result(m, entity) = "panic"
    THEN m
    ELSE [m EXCEPT ![entity.id + 1] =
              [generation |-> gen_succ(m[entity.id + 1].generation),
               location |-> IF free_result(m, entity) = "ok"
                            THEN EMPTY.location
                            ELSE m[entity.id + 1].location]]

\* free leaving the slot's location as it was
free_meta_no_reset(m, entity) ==
    IF free_result(m, entity) = "ok"
    THEN [m EXCEPT ![entity.id + 1].generation = gen_succ(m[entity.id + 1].generation)]
    ELSE m

\* Entities::free : meta afterwards
free_meta(m, entity) ==
    IF free_result(m, entity) = "ok"
    THEN [m EXCEPT ![entity.id + 1] =
              [generation |-> gen_succ(m[entity.id + 1].generation),
               location |-> EMPTY.location]]
    ELSE m

\* Entities::free : the Location in Ok(loc), which mem::replace took out of the
\* slot, as <<archetype, index>>; nothing for Err
free_loc(m, entity) ==
    IF free_result(m, entity) = "ok"
    THEN <<m[entity.id + 1].location.archetype, m[entity.id + 1].location.index>>
    ELSE <<>>

\* Entities::free : pending afterwards
free_pending(m, p, entity) ==
    IF free_result(m, entity) = "ok" THEN Append(p, entity.id) ELSE p

\* Entities::free : free_cursor afterwards
free_cursor_after(m, p, c, entity) ==
    IF free_result(m, entity) = "ok" THEN Len(free_pending(m, p, entity)) ELSE c

Free(entity) ==
    /\ AllIdle
    /\ verify_flushed
    /\ LET res == free_result(meta, entity)
       IN  /\ res = "ok" => meta[entity.id + 1].generation < MaxGen
           /\ last' = Event("free", res, entity, 0, free_loc(meta, entity), {})
           /\ live' = IF res = "ok" THEN [live EXCEPT ![entity] = 0] ELSE live
           /\ freed' = IF res = "ok" THEN freed \cup {entity} ELSE freed
    /\ meta' = free_meta(meta, entity)
    /\ pending' = free_pending(meta, pending, entity)
    /\ free_cursor' = free_cursor_after(meta, pending, free_cursor, entity)
    /\ UNCHANGED <<pc, tl, issued, reserved, handed, nhanded, requested>>

\* an event's record of the build its call ran in
BuildTag(debug) == IF debug THEN 1 ELSE 0

\* verify_flushed without its assertion: every call passes
verify_flushed_outcome_unchecked(debug) == "pass"

\* Entities::verify_flushed as each build compiles it: debug_assert! fails the
\* call in a build with debug assertions and is compiled out in one without
verify_flushed_outcome(debug) ==
    IF debug /\ needs_flush THEN "assert" ELSE "pass"

\* alloc invoked although a reservation is outstanding, in a build with (debug)
\* or without debug assertions; the event's n is 1 for the former, 0 for the
\* latter
AllocUnflushed(debug) ==
    /\ AllIdle
    /\ needs_flush
    /\ Len(pending) > 0 \/ Len(meta) < MaxMeta
    /\ IF verify_flushed_outcome(debug) = "assert"
       THEN /\ last' = Event("alloc", "assert", NoEntity, BuildTag(debug), <<>>, {})
            /\ UNCHANGED <<meta, pending, free_cursor, live, issued, freed>>
       ELSE /\ LET e == alloc_entity(meta, pending)
               IN  /\ Issue(e)
                   /\ last' = Event("alloc", "ok", e, BuildTag(debug), <<>>, {})
            /\ meta' = alloc_meta(meta, pending)
            /\ pending' = alloc_pending(pending)
            /\ free_cursor' = alloc_cursor(pending, free_cursor)
    /\ UNCHANGED <<pc, tl, reserved, handed, nhanded, requested>>

\* free invoked although a reservation is outstanding, in a build with (debug)
\* or without debug assertions; the event's n is 1 for the former, 0 for the
\* latter
FreeUnflushed(entity, debug) ==
    /\ AllIdle
    /\ needs_flush
    /\ IF verify_flushed_outcome(debug) = "assert"
       THEN /\ last' = Event("free", "assert", entity, BuildTag(debug), <<>>, {})
            /\ UNCHANGED <<meta, pending, free_cursor, live, freed>>
       ELSE /\ LET res == free_result(meta, entity)
               IN  /\ res = "ok" => meta[entity.id + 1].generation < MaxGen
                   /\ last' = Event("free", res, entity, BuildTag(debug),
                                    free_loc(meta, entity), {})
                   /\ live' = IF res = "ok" THEN [live EXCEPT ![entity] = 0] ELSE live
                   /\ freed' = IF res = "ok" THEN freed \cup {entity} ELSE freed
            /\ meta' = free_meta(meta, entity)
            /\ pending' = free_pending(meta, pending, entity)
            /\ free_cursor' = free_cursor_after(meta, pending, free_cursor, entity)
    /\ UNCHANGED <<pc, tl, issued, reserved, handed, nhanded, requested>>

\* Entities::clear, by a caller that keeps the handles K of those it was given
Clear(K) ==
    /\ AllIdle
    /\ meta' = <<>>
    /\ pending' = <<>>
    /\ free_cursor' = 0
    /\ live' = [h \in Handles |-> 0]
    /\ issued' = K
    /\ freed' = freed \cap K
    /\ reserved' = {}
    /\ handed' = {}
    /\ nhanded' = 0
    /\ requested' = 0
    /\ last' = Event("clear", "ok", NoEntity, 0, <<>>, {})
    /\ UNCHANGED <<pc, tl>>

\* Entities::get_mut : "panic" is the out-of-bounds index self.meta[entity.id]
get_mut_result(m, entity) ==
    IF entity.id >= Len(m) THEN "panic"
    ELSE IF m[entity.id + 1].generation = entity.generation THEN "ok"
    ELSE "err"

\* get_mut followed by the caller's write through the &mut Location it returned
GetMut(entity, w) ==
    /\ AllIdle
    /\ LET res == get_mut_result(meta, entity)
       IN  /\ meta' = IF res = "ok"
                      THEN [meta EXCEPT ![entity.id + 1].location = w]
                      ELSE meta
           /\ last' = Event("get_mut", res, entity, 0, <<>>, {})
    /\ UNCHANGED <<pending, free_cursor, pc, tl, live, issued, freed, reserved,
                   handed, nhanded, requested>>

\* Result<Location, NoSuchEntity>
Ok(location) == [res |-> "ok", location |-> location]

Err == [res |-> "err", location |-> Location(0 - 1, 0 - 1)]

\* Entities::get
get(m, entity) ==
    IF Len(m) <= entity.id
    THEN Ok(Location(0, U32Max))
    ELSE IF m[entity.id + 1].generation # entity.generation
         THEN Err
         ELSE IF m[entity.id + 1].location.archetype = 0
              THEN Ok(Location(0, U32Max))
              ELSE Ok(m[entity.id + 1].location)

\* resolve_unknown_gen that looks into the slot array only
resolve_unknown_gen_meta_only(m, c, id) ==
    IF Len(m) > id
    THEN [res |-> "ok", e |-> Entity(m[id + 1].generation, id)]
    ELSE [res |-> "panic", e |-> NoEntity]

\* Entities::resolve_unknown_gen on the allocator (m, c); "panic" is
\* panic!("entity id is out of range")
resolve_unknown_gen(m, c, id) ==
    LET meta_len == Len(m)
        num_pending == Max(0 - c, 0)
    IN  IF meta_len > id
        THEN [res |-> "ok", e |-> Entity(m[id + 1].generation, id)]
        ELSE IF meta_len + num_pending > id
             THEN [res |-> "ok", e |-> Entity(0, id)]
             ELSE [res |-> "panic", e |-> NoEntity]

\* Entities::flush : the new_free_cursor it computes from the cursor c it read
flush_cutoff(c) == IF c >= 0 THEN c ELSE 0

\* flush without its second loop: the initializer sees the new slots only
flush_calls_new_only(m, p, c) ==
    IF c >= 0 THEN <<>> ELSE [i \in 1..(0 - c) |-> Len(m) + i - 1]

\* Entities::flush : the ids the initializer is invoked with, in order:
\* the new slots old_meta_len.., then the drained pending[new_free_cursor..]
flush_calls(m, p, c) ==
    LET fresh == IF c >= 0 THEN <<>> ELSE [i \in 1..(0 - c) |-> Len(m) + i - 1]
    IN  fresh \o SubSeq(p, flush_cutoff(c) + 1, Len(p))

\* Entities::flush : meta afterwards; the initializer writes w through each &mut Location
flush_meta(m, p, c, w) ==
    LET grown == IF c >= 0 THEN m ELSE m \o [i \in 1..(0 - c) |-> EMPTY]
        ids == Range(flush_calls(m, p, c))
    IN  [i \in 1..Len(grown) |->
            IF (i - 1) \in ids THEN [grown[i] EXCEPT !.location = w] ELSE grown[i]]

\* Entities::flush : pending afterwards (pending.drain(new_free_cursor..))
flush_pending(p, c) == SubSeq(p, 1, flush_cutoff(c))

\* flush without the store(0) of its negative branch
flush_cursor_no_store(c) == c

\* Entities::flush : free_cursor afterwards (store(0) in the negative branch only)
flush_cursor(c) == IF c >= 0 THEN c ELSE 0

Flush(w) ==
    /\ AllIdle
    /\ meta' = flush_meta(meta, pending, free_cursor, w)
    /\ pending' = flush_pending(pending, free_cursor)
    /\ free_cursor' = flush_cursor(free_cursor)
    /\ reserved' = {}
    /\ handed' = {}
    /\ nhanded' = 0
    /\ requested' = 0
    /\ last' = Event("flush", "ok", NoEntity, free_cursor,
                     flush_calls(meta, pending, free_cursor), handed)
    /\ UNCHANGED <<pc, tl, live, issued, freed>>

(* --------------------------- specifications ----------------------------- *)
\* the reservation calls of the threads in T, interleaved at their steps
Reserve(T) ==
    \E t \in T :
        \/ ReserveEntityFetch(t)
        \/ ReserveEntityReturn(t)
        \/ \E count \in 0..MaxCount : ReserveEntities(t, count)
        \/ IterNext(t)
        \/ IterDrop(t)

\* every operation, reservations running concurrently; a caller presents handles
\* the allocator issued, and drops the handles it holds when it clears
Next ==
    \/ Reserve(Threads)
    \/ Alloc
    \/ \E e \in issued : Free(e)
    \/ \E w \in Locations : Flush(w)
    \/ Clear({})
    \/ \E e \in issued, w \in Locations : GetMut(e, w)

Spec == Init /\ [][Next]_vars

\* one caller at a time, which may keep one of its handles across clear
NextStale ==
    \/ Reserve({1})
    \/ Alloc
    \/ \E e \in issued : Free(e)
    \/ Flush(EMPTY.location)
    \/ \E e \in issued : Clear({e})

SpecStale == Init /\ [][NextStale]_vars

\* one caller at a time, which also calls alloc and free while reservations are
\* outstanding; each such call runs as a build with debug assertions or as one
\* without would run it
NextUnflushed ==
    \/ ReserveEntityFetch(1)
    \/ ReserveEntityReturn(1)
    \/ Alloc
    \/ \E e \in issued : Free(e)
    \/ Flush(EMPTY.location)
    \/ \E debug \in BOOLEAN : AllocUnflushed(debug)
    \/ \E e \in issued, debug \in BOOLEAN : FreeUnflushed(e, debug)

SpecUnflushed == Init /\ [][NextUnflushed]_vars

(* ---------------------- handles kept across clear ------------------------- *)
\* Entities::free as Free, followed one generation further: a slot is freed
\* while its generation is at most MaxGen
FreeLate(entity) ==
    /\ AllIdle
    /\ verify_flushed
    /\ LET res == free_result(meta, entity)
       IN  /\ res = "ok" => meta[entity.id + 1].generation <= MaxGen
           /\ last' = Event("free", res, entity, 0, free_loc(meta, entity), {})
           /\ live' = IF res = "ok" THEN [live EXCEPT ![entity] = 0] ELSE live
           /\ freed' = IF res = "ok" THEN freed \cup {entity} ELSE freed
    /\ meta' = free_meta(meta, entity)
    /\ pending' = free_pending(meta, pending, entity)
    /\ free_cursor' = free_cursor_after(meta, pending, free_cursor, entity)
    /\ UNCHANGED <<pc, tl, issued, reserved, handed, nhanded, requested>>

\* one caller at a time, which keeps one of its handles when it clears
NextKept ==
    \/ Reserve({1})
    \/ Alloc
    \/ \E e \in issued : FreeLate(e)
    \/ Flush(EMPTY.location)
    \/ \E e \in issued : Clear({e})

SpecKept == Init /\ [][NextKept]_vars

(* ------------------------- the last generation ----------------------------- *)
\* `meta.generation += 1` (line 237) on a u32 panics at u32::MAX in a build
\* with overflow checks (the debug profile); without them (the release
\* profile) it wraps, as gen_succ does
add_overflows(g, overflow_checks) == overflow_checks /\ g = U32Max

\* Entities::free with the outcome of line 237 in either build
free_result_in(m, entity, overflow_checks) ==
    IF free_result(m, entity) = "ok"
    THEN IF add_overflows(m[entity.id + 1].generation, overflow_checks)
         THEN "overflow"
         ELSE "ok"
    ELSE free_result(m, entity)

\* one slot that 2^32 - 1 free/alloc cycles have brought to the last
\* generation, its handle live
InitWrap ==
    /\ meta = <<[generation |-> U32Max, location |-> Location(1, 0)]>>
    /\ pending = <<>>
    /\ free_cursor = 0
    /\ pc = [t \in Threads |-> "idle"]
    /\ tl = [t \in Threads |-> IdleLocals]
    /\ live = [h \in Handles |-> IF h = Entity(U32Max, 0) THEN 1 ELSE 0]
    /\ issued = {Entity(U32Max, 0)}
    /\ freed = {}
    /\ reserved = {}
    /\ handed = {}
    /\ nhanded = 0
    /\ requested = 0
    /\ last = Event("alloc", "ok", Entity(U32Max, 0), 0, <<>>, {})

\* free in a build with or without overflow checks (the event's n is 1 or 0);
\* the panic of line 237 comes before any write
FreeOverflow(entity, overflow_checks) ==
    /\ AllIdle
    /\ verify_flushed
    /\ LET res == free_result_in(meta, entity, overflow_checks)
       IN  /\ res = "ok" => \/ meta[entity.id + 1].generation = U32Max
                            \/ meta[entity.id + 1].generation < MaxGen
           /\ last' = Event("free", res, entity, BuildTag(overflow_checks),
                            IF res = "ok" THEN free_loc(meta, entity) ELSE <<>>, {})
           /\ live' = IF res = "ok" THEN [live EXCEPT ![entity] = 0] ELSE live
           /\ freed' = IF res = "ok" THEN freed \cup {entity} ELSE freed
           /\ meta' = IF res = "ok" THEN free_meta(meta, entity) ELSE meta
           /\ pending' = IF res = "ok" THEN free_pending(meta, pending, entity) ELSE pending
           /\ free_cursor' = IF res = "ok"
                             THEN free_cursor_after(meta, pending, free_cursor, entity)
                             ELSE free_cursor
    /\ UNCHANGED <<pc, tl, issued, reserved, handed, nhanded, requested>>

NextWrap ==
    \/ Reserve({1})
    \/ Alloc
    \/ \E e \in issued, overflow_checks \in BOOLEAN : FreeOverflow(e, overflow_checks)
    \/ Flush(EMPTY.location)

SpecWrap == InitWrap /\ [][NextWrap]_vars

(* --------------------------- Entity <-> bits ------------------------------ *)
\* a u32 word of the handle has WordBits bits here, a u64 twice as many
U32Words == 0..(2 ^ WordBits - 1)

RECURSIVE BitOr(_, _)
\* a | b
BitOr(a, b) ==
    IF a = 0 THEN b
    ELSE IF b = 0 THEN a
    ELSE (IF a % 2 = 1 \/ b % 2 = 1 THEN 1 ELSE 0) + 2 * BitOr(a \div 2, b \div 2)

\* x << k on a u64
ShiftLeft(x, k) == (x * 2 ^ k) % (2 ^ (2 * WordBits))

\* x >> k on a u64
ShiftRight(x, k) == x \div (2 ^ k)

\* x as u32
AsU32(x) == x % (2 ^ WordBits)

\* to_bits without the shift: generation | id
to_bits_no_shift(entity) == BitOr(entity.generation, entity.id)

\* Entity::to_bits
to_bits(entity) == BitOr(ShiftLeft(entity.generation, WordBits), entity.id)

\* Entity::from_bits
from_bits(bits) == Entity(AsU32(ShiftRight(bits, WordBits)), AsU32(bits))

\* an arbitrary handle, and an allocator that plays no part
InitBits ==
    /\ meta = <<>>
    /\ pending = <<>>
    /\ free_cursor = 0
    /\ pc = [t \in Threads |-> "idle"]
    /\ tl = [t \in Threads |-> IdleLocals]
    /\ live = [h \in Handles |-> 0]
    /\ issued = {}
    /\ freed = {}
    /\ reserved = {}
    /\ handed = {}
    /\ nhanded = 0
    /\ requested = 0
    /\ \E g \in U32Words, i \in U32Words :
           last = Event("entity", "ok", Entity(g, i), 0, <<>>, {})

\* entity.to_bits(): the event keeps the handle in e and the bits in n
ToBits ==
    /\ last.op = "entity"
    /\ last' = Event("to_bits", "ok", last.e, to_bits(last.e), <<>>, {})
    /\ UNCHANGED <<meta, pending, free_cursor, pc, tl, live, issued, freed,
                   reserved, handed, nhanded, requested>>

\* Entity::from_bits(bits): the event keeps the result in e, the bits in n and
\* the handle the bits were made from in want
FromBits ==
    /\ last.op = "to_bits"
    /\ last' = Event("from_bits", "ok", from_bits(last.n), last.n, <<>>, {last.e})
    /\ UNCHANGED <<meta, pending, free_cursor, pc, tl, live, issued, freed,
                   reserved, handed, nhanded, requested>>

NextBits ==
    \/ ToBits
    \/ FromBits

SpecBits == InitBits /\ [][NextBits]_vars

(* ------------------------ id-space exhaustion ---------------------------- *)
\* u32::MAX as the largest id, scaled to the ids the model holds
MaxId == MaxMeta - 1

\* u32::try_from(x) is Err: `.expect("too many entities")` panics
TooManyEntities(x) == x < 0 \/ x > MaxId

Panicked(c) == [res |-> "panic", e |-> NoEntity, cursor |-> c]

Returned(e, c) == [res |-> "ok", e |-> e, cursor |-> c]

\* Entities::reserve_entity as one call on the allocator (m, p, c): the cursor
\* it leaves and the handle it returns, or the panic of line 194
reserve_entity(m, p, c) ==
    LET n == c
    IN  IF n <= 0 /\ TooManyEntities(Len(m) - n)
        THEN Panicked(c - 1)
        ELSE Returned(reserve_entity_result(m, p, n), c - 1)

\* Entities::reserve_entities(count).next().unwrap() as one call on the
\* allocator (m, p, c): new_id_end = u32::try_from(base - range_start), line 159
reserve_entities_first(m, p, c, count) ==
    LET range_end == c
        range_start == range_end - count
    IN  IF range_start < 0 /\ TooManyEntities(Len(m) - range_start)
        THEN Panicked(c - count)
        ELSE Returned(iter_next(m, p, reserve_entities_iter(m, range_end, count)),
                      c - count)

\* the cursor is followed only a little beyond the point where every call panics
CursorTracked == Len(meta) - free_cursor <= MaxId + 2

\* a caller runs reserve_entity to its end
ReserveEntityCall ==
    /\ AllIdle
    /\ CursorTracked
    /\ LET r == reserve_entity(meta, pending, free_cursor)
       IN  /\ free_cursor' = r.cursor
           /\ last' = Event("reserve_entity", r.res, r.e, 1, <<>>, {})
           /\ IF r.res = "ok"
              THEN /\ Issue(r.e)
                   /\ reserved' = reserved \cup {r.e}
                   /\ handed' = handed \cup {r.e.id}
                   /\ nhanded' = nhanded + 1
                   /\ requested' = requested + 1
              ELSE UNCHANGED <<live, issued, freed, reserved, handed, nhanded, requested>>
    /\ UNCHANGED <<meta, pending, pc, tl>>

\* a caller runs reserve_entities(count).next().unwrap() and drops the iterator
ReserveEntitiesFirstCall(count) ==
    /\ AllIdle
    /\ CursorTracked
    /\ LET r == reserve_entities_first(meta, pending, free_cursor, count)
           it == reserve_entities_iter(meta, free_cursor, count)
       IN  /\ free_cursor' = r.cursor
           /\ last' = Event("reserve_entities", r.res, r.e, count, <<>>, {})
           /\ IF r.res = "ok"
              THEN /\ Issue(r.e)
                   /\ reserved' = reserved \cup {r.e}
                   /\ handed' = handed \cup iter_rest(pending, it)
                   /\ nhanded' = nhanded + count
                   /\ requested' = requested + count
              ELSE UNCHANGED <<live, issued, freed, reserved, handed, nhanded, requested>>
    /\ UNCHANGED <<meta, pending, pc, tl>>

\* one caller at a time reserving up to and beyond the last id
NextExhaust ==
    \/ ReserveEntityCall
    \/ \E count \in 1..MaxCount : ReserveEntitiesFirstCall(count)
    \/ Alloc
    \/ \E e \in issued : Free(e)
    \/ Flush(EMPTY.location)

SpecExhaust == Init /\ [][NextExhaust]_vars

(* ------------------------------- claims --------------------------------- *)
RECURSIVE LiveUpTo(_, _)
\* how many handles with id i and a generation up to g are issued and not freed
LiveUpTo(i, g) == IF g < 0 THEN 0 ELSE live[Entity(g, i)] + LiveUpTo(i, g - 1)

\* C1: in every reachable state, at most one handle issued by alloc or by a
\* reservation and not freed since carries any given id.
C1_UniqueLiveIds == \A i \in 0..(MaxMeta - 1) : LiveUpTo(i, MaxGen) <= 1

\* a recycled id and another id are live together, one of them from a reservation
C1_Witness ==
    \E e1 \in Handles, e2 \in reserved :
        /\ e1.id # e2.id
        /\ e1.generation = 1
        /\ live[e1] = 1
        /\ live[e2] = 1

\* C2: the ids handed out by the reservation calls running between two exclusive
\* operations are pairwise distinct under every interleaving (as many distinct
\* ids as handles handed out), and once every call has finished the N handles
\* requested have yielded exactly N distinct ids.
C2_DisjointReservations ==
    /\ Cardinality(handed) = nhanded
    /\ AllIdle => nhanded = requested

\* two calls are in progress at once, past their fetch_sub, the first handles
\* are out, and the requests span the freelist and new ids
C2_Witness ==
    /\ \A t \in Threads : pc[t] # "idle"
    /\ \E t \in Threads : pc[t] = "re_fetched"
    /\ \E t \in Threads : pc[t] = "iter"
    /\ nhanded > 0
    /\ Len(pending) > 0
    /\ free_cursor < 0

\* C3: flush invokes the initializer exactly once for each id handed out by
\* reserve_entity or reserve_entities since the previous flush (ids left in a
\* dropped iterator included), and for no other id.
C3_FlushInitExactlyOnce ==
    last.op = "flush" =>
        /\ Range(last.ids) = last.want
        /\ Len(last.ids) = Cardinality(last.want)

\* a flush that materialized recycled and new ids, one of which was never
\* yielded by its iterator
C3_Witness ==
    /\ last.op = "flush"
    /\ last.n < 0
    /\ Len(last.ids) > 0 - last.n
    /\ \E i \in last.want : \A e \in issued : e.id # i

\* C4: when flush returns, the free cursor equals the length of the pending
\* list, whatever the cursor was before: no reservation is outstanding.
C4_FlushedAfterFlush ==
    last.op = "flush" => free_cursor = Len(pending) /\ verify_flushed

\* a flush that found the cursor negative and came back with freelist entries
\* gone and the cursor at zero
C4_Witness ==
    /\ last.op = "flush"
    /\ last.n < 0
    /\ Len(last.ids) >= 2
    /\ free_cursor = 0

\* the ids N requests take from a freelist p: its last min(N, F) entries
FromFreelist(p, N) == {p[i] : i \in (Len(p) - Min(N, Len(p)) + 1)..Len(p)}

\* the new ids N requests create beyond a freelist of F ids and L slots
NewIds(L, F, N) == L..(L + (N - F) - 1)

\* C5: since the last flushed state, with F = Len(pending) freelist ids and
\* L = Len(meta) slots (neither changes while reservations run), N requests hand
\* out the last min(N, F) freelist ids and the new ids L .. L+(N-F)-1 and nothing
\* else, and leave the free cursor at F - N.
C5_FreelistThenNew ==
    LET expect == FromFreelist(pending, requested)
                      \cup NewIds(Len(meta), Len(pending), requested)
    IN  /\ free_cursor = Len(pending) - requested
        /\ handed \subseteq expect
        /\ AllIdle => handed = expect

\* every call has returned, and the requests used up a non-empty freelist and
\* went on to new ids
C5_Witness ==
    /\ AllIdle
    /\ Len(pending) > 0
    /\ requested > Len(pending)
    /\ Cardinality(handed) = requested

\* C6 (as claimed): after alloc returns e, contains(e) is true; after free(e)
\* succeeds, contains(e) is false and stays false while e's id has not been
\* handed out again.
C6_ContainsFollowsAllocFree ==
    /\ last.op = "alloc" => contains(meta, last.e)
    /\ \A e \in freed : ~contains(meta, e)

\* C7: every handle returned by reserve_entity or reserve_entities satisfies
\* contains from its return until flush runs, recycled id or new id alike.
C7_ReservedContained == \A e \in reserved : contains(meta, e)

\* a recycled handle and a handle for an id beyond the slot array are reserved
C7_Witness ==
    \E e1 \in reserved, e2 \in reserved :
        /\ e1.generation = 1
        /\ e1.id < Len(meta)
        /\ e2.id >= Len(meta)

\* C8 (as claimed): contains(handle) is true exactly when the id is in the slot
\* array with the handle's generation, or beyond it but inside the reserved
\* range  Len(meta) <= id < Len(meta) + max(-cursor, 0).
C8_ContainsIffLiveOrPending ==
    \A e \in Handles :
        contains(meta, e) <=>
            \/ e.id < Len(meta) /\ meta[e.id + 1].generation = e.generation
            \/ /\ Len(meta) <= e.id
               /\ e.id < Len(meta) + Max(0 - free_cursor, 0)

\* C9 (as claimed): in a flushed state free(e) succeeds when the slot of e's id
\* holds e's generation and returns the no-such-entity error in every other case.
C9_FreeErrIffMismatch ==
    [][last'.op = "free" =>
          last'.res = IF /\ last'.e.id < Len(meta)
                         /\ meta[last'.e.id + 1].generation = last'.e.generation
                      THEN "ok" ELSE "err"]_vars

\* C10: a free that reports no such entity leaves every slot, the pending list
\* and the free cursor as they were.
C10_FreeErrChangesNothing ==
    [][(last'.op = "free" /\ last'.res = "err") => UNCHANGED alloc_vars]_vars

\* a stale handle was refused while slots hold written locations and the
\* freelist is not empty
C10_Witness ==
    /\ last.op = "free"
    /\ last.res = "err"
    /\ Len(pending) > 0
    /\ \E i \in 1..Len(meta) : meta[i].location # EMPTY.location

\* C11 (as claimed): alloc or free invoked while a reservation is outstanding
\* fails the flushed-state assertion, changes no state and returns no handle.
C11_UnflushedCallAsserts ==
    [][(last'.op \in {"alloc", "free"} /\ needs_flush) =>
          (last'.res = "assert" /\ UNCHANGED alloc_vars)]_vars

\* C11 (amended): in a build with debug assertions such a call fails the
\* assertion, changes no state and returns no handle; in a build without them
\* the call is not checked and runs as alloc or free runs in a flushed state.
C11_DebugBuildAsserts ==
    [][(last'.op \in {"alloc", "free"} /\ needs_flush) =>
          IF last'.n = BuildTag(TRUE)
          THEN /\ last'.res = "assert"
               /\ UNCHANGED <<alloc_vars, issued, live>>
               /\ last'.op = "alloc" => last'.e = NoEntity
          ELSE /\ last'.res # "assert"
               /\ last'.op = "alloc" =>
                      /\ last'.e = alloc_entity(meta, pending)
                      /\ meta' = alloc_meta(meta, pending)
                      /\ pending' = alloc_pending(pending)
               /\ last'.op = "free" =>
                      /\ last'.res = free_result(meta, last'.e)
                      /\ meta' = free_meta(meta, last'.e)
                      /\ pending' = free_pending(meta, pending, last'.e)]_vars

\* alloc was refused by the assertion while a reserved new id awaits its flush
C11_Witness ==
    /\ last.op = "alloc"
    /\ last.res = "assert"
    /\ free_cursor < 0
    /\ reserved # {}

\* C12: from every allocator state reserve_entity() and
\* reserve_entities(1).next().unwrap() return the same handle, leave the same
\* free cursor and fail with id-space exhaustion in the same states.
C12_ReserveEntityIsReserveEntitiesOne ==
    reserve_entity(meta, pending, free_cursor)
        = reserve_entities_first(meta, pending, free_cursor, 1)

\* id in the slot array with matching generation
InSlotArray(m, e) == e.id < Len(m) /\ m[e.id + 1].generation = e.generation

\* id among the new ids reserved beyond the slot array and not yet flushed
PendingUnflushed(m, c, e) == Len(m) <= e.id /\ e.id < Len(m) + Max(0 - c, 0)

\* C13: for every handle that is neither live (id in the slot array with
\* matching generation) nor pending-but-unflushed, get and get_mut both report
\* the no-such-entity error.
C13_GetErrForOtherHandles ==
    \A h \in Handles :
        (~InSlotArray(meta, h) /\ ~PendingUnflushed(meta, free_cursor, h)) =>
            (get(meta, h) = Err /\ get_mut_result(meta, h) = "err")

\* C14: for every live handle e, get(e) returns exactly the Location stored in
\* e's slot, the sentinel only when the stored value is the sentinel.
C14_GetReturnsStoredLocation ==
    \A h \in Handles :
        InSlotArray(meta, h) => get(meta, h) = Ok(meta[h.id + 1].location)

\* C15: from_bits(to_bits(e)) = e for every generation and id, to_bits placing
\* the generation in the high word and the id in the low word.
C15_BitsRoundTrip ==
    /\ last.op = "to_bits" =>
           /\ last.n \div (2 ^ WordBits) = last.e.generation
           /\ last.n % (2 ^ WordBits) = last.e.id
    /\ last.op = "from_bits" => last.want = {last.e}

\* a handle with every bit of both words set has made the round trip
C15_Witness ==
    /\ last.op = "from_bits"
    /\ last.want = {Entity(2 ^ WordBits - 1, 2 ^ WordBits - 1)}

\* C16: in a flushed state alloc recycles whenever the pending list is
\* non-empty: it removes the last pending entry, returns that id with its
\* slot's current generation, leaves the slot array as it is and sets the free
\* cursor to the new pending length; only with an empty pending list does it
\* append a slot (generation 0, sentinel location) and return the id equal to
\* the previous slot array length.
C16_AllocRecyclesFirst ==
    [][(last'.op = "alloc" /\ verify_flushed) =>
          IF Len(pending) > 0
          THEN /\ pending' = SubSeq(pending, 1, Len(pending) - 1)
               /\ last'.e = Entity(meta[pending[Len(pending)] + 1].generation,
                                   pending[Len(pending)])
               /\ meta' = meta
               /\ free_cursor' = Len(pending')
          ELSE /\ meta' = Append(meta, [generation |-> 0,
                                        location |-> Location(0, U32Max)])
               /\ last'.e = Entity(0, Len(meta))
               /\ pending' = pending
               /\ free_cursor' = Len(pending')]_vars

\* alloc has recycled the last of two pending ids, a slot freed once before
C16_Witness ==
    /\ last.op = "alloc"
    /\ last.e.generation = 1
    /\ Len(pending) = 1
    /\ last.e.id < Len(meta)
    /\ free_cursor = 1

\* C17: a successful free(e) advances the generation of e's slot by exactly
\* one, resets that slot's location to the sentinel and returns the location
\* stored before, appends e's id to the pending list and sets the free cursor
\* to the new pending length; no other slot is changed, and no operation other
\* than free and clear changes any slot's generation.
C17_FreeEffects ==
    [][/\ (last'.op = "free" /\ last'.res = "ok") =>
              LET i == last'.e.id + 1
              IN  /\ Len(meta') = Len(meta)
                  /\ meta'[i].generation = meta[i].generation + 1
                  /\ meta'[i].location = Location(0, U32Max)
                  /\ last'.ids = <<meta[i].location.archetype, meta[i].location.index>>
                  /\ pending' = Append(pending, last'.e.id)
                  /\ free_cursor' = Len(pending')
                  /\ \A j \in 1..Len(meta) : j # i => meta'[j] = meta[j]
       /\ last'.op \notin {"free", "clear"} =>
              /\ Len(meta') >= Len(meta)
              /\ \A j \in 1..Len(meta) : meta'[j].generation = meta[j].generation]_vars

\* a second id was freed, and free returned the location written to its slot
C17_Witness ==
    /\ last.op = "free"
    /\ last.res = "ok"
    /\ last.ids = <<1, 0>>
    /\ Len(pending) = 2
    /\ Len(meta) = 3

\* C18: a successful free of a handle whose slot generation is the maximum
\* 32-bit value does not fail and leaves the slot's generation at 0, so that
\* the handle first issued for that id, generation 0, is accepted again by
\* contains, get and free.
C18_GenerationWraps ==
    [][(/\ last'.op = "free"
        /\ free_result(meta, last'.e) = "ok"
        /\ meta[last'.e.id + 1].generation = U32Max) =>
          LET first == Entity(0, last'.e.id)
          IN  /\ last'.res = "ok"
              /\ meta'[last'.e.id + 1].generation = 0
              /\ contains(meta', first)
              /\ get(meta', first).res = "ok"
              /\ free_result(meta', first) = "ok"]_vars

C20_PendingWellFormed ==
    /\ free_cursor <= Len(pending)
    /\ \A i, j \in 1..Len(pending) : i # j => pending[i] # pending[j]
    /\ \A i \in 1..Len(pending) : pending[i] < Len(meta)
    /\ \A i \in 1..Min(free_cursor, Len(pending)) :
           /\ pending[i] < Len(meta) =>
                  meta[pending[i] + 1].location = Location(0, U32Max)
           /\ \A h \in Handles : live[h] >= 1 => h.id # pending[i]

=============================================================================
